---------------------------- MODULE Spec2Model ----------------------------
(***************************************************************************)
(* A model of otoole's solution conversion and output strategies:          *)
(*                                                                         *)
(*   src/src/otoole/results/convert.py                                     *)
(*     ConvertLine            one record of a solver file -> output rows   *)
(*     convert_cplex_file     the line loop over a solver file             *)
(*     rename_duplicate_column and its helpers                             *)
(*     convert_dataframe_to_csv   per-variable tables and derived results  *)
(*   src/src/otoole/write_strategies.py                                    *)
(*     WriteDatafile, WriteCsv, WriteDatapackage                           *)
(*                                                                         *)
(* Five specifications share the variables below:                          *)
(*   SpecLine       ConvertLine on one record (a pure function of its      *)
(*                  inputs, drawn in the initial state)                    *)
(*   Spec           convert_cplex_file, one action per line read           *)
(*   SpecRename     rename_duplicate_column on one column list             *)
(*   SpecDataframe  convert_dataframe_to_csv, one action per loop turn     *)
(*   SpecWrite      the write strategies between _header and _footer       *)
(* Python lists are sequences (index 0 of the code is index 1 here).       *)
(***************************************************************************)
EXTENDS Integers, Sequences, FiniteSets, TLC

VARIABLES
    pc,             \* position of the running function
    raised,         \* the exception that left the function, or NoException
    \* ConvertLine (self.*) and what its methods returned
    data, start_year, end_year, output_format, number, parsed, converted,
    \* convert_cplex_file: lines read from cplex_file, rows written to cbc_file
    cplex_file, cbc_file,
    \* rename_duplicate_column: the caller's list and the returned list
    index, column,
    \* convert_dataframe_to_csv
    solver_data, rules, results, not_found, cursor, attempts, log,
    \* write strategies: the variant, its handle, the files of the sink, the calls made
    variant, handle, files, manifest, calls

lineVars   == <<data, start_year, end_year, output_format, number, parsed, converted>>
fileVars   == <<cplex_file, cbc_file>>
renameVars == <<index, column>>
dfVars     == <<solver_data, rules, results, not_found, cursor, attempts, log>>
writeVars  == <<variant, handle, files, manifest, calls>>
vars == <<pc, raised, lineVars, fileVars, renameVars, dfVars, writeVars>>

\* ------------------------------------------------------------------ bounds

\* SpecLine: tokens of a record after the variable name
MaxTokens == 4
\* Spec: lines read from one solver file, value tokens per line
MaxLines == 2
MaxValues == 2
\* SpecRename: length of a column list
MaxColumns == 4
\* SpecWrite: write calls between _header and _footer, rows of a table
MaxWrites == 2
MaxRows == 2

\* ------------------------------------------------------------- exceptions

NoException == [type |-> "None", args |-> <<>>]

KeyError(key) == [type |-> "KeyError", args |-> <<key>>]

Min(a, b) == IF a < b THEN a ELSE b

\* Python's s[a:b] for 0 <= a, 0 <= b
slice(s, a, b) == SubSeq(s, a + 1, Min(b, Len(s)))

\* Python's s[a:] for 0 <= a
slice_from(s, a) == SubSeq(s, a + 1, Len(s))

\* every sequence over S of length 0..n
SeqUpTo(S, n) == UNION {[1..k -> S] : k \in 0..n}

\* ----------------------------------------------------------------- schema

\* read_packaged_file("config.yaml", "otoole.results"): variable -> its
\* declared dimension names.  The last declared dimension of a result is the
\* year; Trade declares REGION twice.
results_config ==
    [v \in {"TotalDiscountedCost", "AnnualEmissions", "Trade"} |->
        CASE v = "TotalDiscountedCost" -> [indices |-> <<"REGION", "YEAR">>]
          [] v = "AnnualEmissions" -> [indices |-> <<"REGION", "EMISSION", "YEAR">>]
          [] v = "Trade" ->
               [indices |-> <<"REGION", "REGION", "TIMESLICE", "FUEL", "YEAR">>]]

\* the order in which results_config.items() yields the variables
config_order == <<"TotalDiscountedCost", "AnnualEmissions", "Trade">>

\* ------------------------------------------------------------ ConvertLine

\* float(value) followed by "{}".format(...): the text Python prints for the
\* parsed number; float() strips the surrounding whitespace (a line terminator
\* included) and rejects the empty and the non-numeric token.
float_format(value) ==
    CASE value \in {"1.5", "1.5\n"} -> "1.5"
      [] value \in {"0", "0.0", "0\n", "0.0\n"} -> "0.0"
      [] OTHER -> "ValueError"

\* try: value = float(value) except ValueError: value = 0
coerce(value) ==
    IF float_format(value) = "ValueError" THEN "0" ELSE float_format(value)

\* a faulty variant of emits: the end year itself is cut off
emits_before_end(value, year, last_year) ==
    (value \notin {"0.0", "0", ""}) /\ (year < last_year)

\* (value not in ["0.0", "0", ""]) and (year <= self.end_year)
emits(value, year, last_year) ==
    (value \notin {"0.0", "0", ""}) /\ (year <= last_year)

\* self.number = len(self.results_config[self.data[0]]["indices"])
declared_number(record) == Len(results_config[record[1]].indices)

\* a faulty variant of do_it: as many dimension tokens as declared dimensions
do_it_full_count(record, n) ==
    [variable |-> record[1],
     dimensions |-> slice(record, 1, n + 1),
     values |-> slice_from(record, n + 1)]

\* ConvertLine._do_it
do_it(record, n) ==
    [variable |-> record[1],
     dimensions |-> slice(record, 1, n),
     values |-> slice_from(record, n)]

RECURSIVE join(_, _)
\* sep.join(tokens)
join(sep, tokens) ==
    IF tokens = <<>> THEN ""
    ELSE IF Len(tokens) = 1 THEN tokens[1]
    ELSE tokens[1] \o sep \o join(sep, Tail(tokens))

\* '{0},"{1}",{2}\n'.format(variable, full_dims, value)
csv_row(variable, dimensions, year, value) ==
    [variable |-> variable, dimensions |-> dimensions, year |-> year,
     value |-> coerce(value),
     text |-> variable \o ",\"" \o join(",", Append(dimensions, ToString(year)))
              \o "\"," \o coerce(value) \o "\n"]

\* "0 {0}({1}) {2} 0\n".format(variable, full_dims, value)
cbc_row(variable, dimensions, year, value) ==
    [variable |-> variable, dimensions |-> dimensions, year |-> year,
     value |-> coerce(value),
     text |-> "0 " \o variable \o "(" \o join(",", Append(dimensions, ToString(year)))
              \o ") " \o coerce(value) \o " 0\n"]

RECURSIVE csv_loop(_, _, _, _, _)
\* the for loop of convert_csv, from position i (0-based) of the values on
csv_loop(t, i, first_year, last_year, acc) ==
    IF i >= Len(t.values) THEN acc
    ELSE LET value == t.values[i + 1]
             year == first_year + i
         IN csv_loop(t, i + 1, first_year, last_year,
                IF emits(value, year, last_year)
                THEN Append(acc, csv_row(t.variable, t.dimensions, year, value))
                ELSE acc)

RECURSIVE cbc_loop(_, _, _, _, _)
\* the for loop of convert_cbc, from position i (0-based) of the values on
cbc_loop(t, i, first_year, last_year, acc) ==
    IF i >= Len(t.values) THEN acc
    ELSE LET value == t.values[i + 1]
             year == first_year + i
         IN cbc_loop(t, i + 1, first_year, last_year,
                IF emits(value, year, last_year)
                THEN Append(acc, cbc_row(t.variable, t.dimensions, year, value))
                ELSE acc)

\* ConvertLine.convert_csv
convert_csv(record, n, first_year, last_year) ==
    csv_loop(do_it(record, n), 0, first_year, last_year, <<>>)

\* ConvertLine.convert_cbc
convert_cbc(record, n, first_year, last_year) ==
    cbc_loop(do_it(record, n), 0, first_year, last_year, <<>>)

\* ConvertLine.convert, for the two formats it knows
convert(record, n, first_year, last_year, format) ==
    IF format = "cbc" THEN convert_cbc(record, n, first_year, last_year)
    ELSE convert_csv(record, n, first_year, last_year)


\* ------------------------------------------------- idle values of a group

IdleLine ==
    /\ data = <<>> /\ start_year = 0 /\ end_year = 0 /\ output_format = "cbc"
    /\ number = 0 /\ parsed = <<>> /\ converted = <<>>

IdleFile == cplex_file = <<>> /\ cbc_file = <<>>

IdleRename == index = <<>> /\ column = <<>>

IdleDataframe ==
    /\ solver_data = {} /\ rules = <<>> /\ results = <<>> /\ not_found = <<>>
    /\ cursor = 0 /\ attempts = <<>> /\ log = <<>>

IdleWrite ==
    /\ variant = "none" /\ handle = <<>> /\ files = <<>> /\ manifest = <<>>
    /\ calls = <<>>

\* ---------------------------------------- SpecLine: ConvertLine on a record

\* the tokens a record is drawn from: a set element, the three tokens the
\* code elides, a number, and a token float() rejects
Tokens == {"SIMPLICITY", "", "0", "0.0", "1.5", "x"}

StartYears == {2015}

EndYears == {2014, 2015, 2016}

Formats == {"cbc", "csv"}

LineVariables == {"TotalDiscountedCost", "AnnualEmissions"}

\* ConvertLine(data, start_year, end_year, output_format) has been constructed
\* for a record whose variable the schema declares
InitLine ==
    /\ pc = "constructed"
    /\ raised = NoException
    /\ \E v \in LineVariables, rest \in SeqUpTo(Tokens, MaxTokens) :
           data = <<v>> \o rest
    /\ start_year \in StartYears
    /\ end_year \in EndYears
    /\ output_format \in Formats
    /\ number = declared_number(data)
    /\ parsed = <<>>
    /\ converted = <<>>
    /\ IdleFile /\ IdleRename /\ IdleDataframe /\ IdleWrite

\* a call of _do_it()
DoIt ==
    /\ pc = "constructed"
    /\ parsed' = do_it(data, number)
    /\ pc' = "parsed"
    /\ UNCHANGED <<raised, data, start_year, end_year, output_format, number,
                   converted, fileVars, renameVars, dfVars, writeVars>>

\* a call of convert()
Convert ==
    /\ pc \in {"constructed", "parsed"}
    /\ converted' = convert(data, number, start_year, end_year, output_format)
    /\ pc' = "converted"
    /\ UNCHANGED <<raised, data, start_year, end_year, output_format, number,
                   parsed, fileVars, renameVars, dfVars, writeVars>>

NextLine == DoIt \/ Convert

SpecLine == InitLine /\ [][NextLine]_vars

\* the tokens convert elides
AbsentTokens == {"", "0", "0.0"}

\* the value sequence of the record, and the positions (1-based) of it that
\* the claim says yield a row
ValueSequence == do_it(data, number).values

KeptPositions ==
    {i \in 1..Len(ValueSequence) :
        ValueSequence[i] \notin AbsentTokens /\ start_year + (i - 1) <= end_year}

\* C1: convert emits a row for position i of the value sequence exactly when
\* the token there is none of "", "0", "0.0" and start_year + i <= end_year;
\* the row's year is start_year + i, i counting elided positions too, and the
\* rows come in the order of their positions.
C1_RowsAreKeptPositions ==
    pc = "converted" =>
        /\ Len(converted) = Cardinality(KeptPositions)
        /\ \A k \in 1..Len(converted) :
               (converted[k].year - start_year) + 1 \in KeptPositions
        /\ \A i \in KeptPositions :
               \E k \in 1..Len(converted) : converted[k].year = start_year + (i - 1)
        /\ \A k \in 1..(Len(converted) - 1) : converted[k].year < converted[k + 1].year

\* an elided slot precedes an emitted row of the year end_year, and a later,
\* non-elided slot lies beyond end_year
C1_Witness ==
    /\ pc = "converted"
    /\ \E i, j, l \in 1..Len(ValueSequence) :
          /\ i < j /\ j < l
          /\ ValueSequence[i] \in AbsentTokens
          /\ j \in KeptPositions
          /\ start_year + (j - 1) = end_year
          /\ ValueSequence[l] \notin AbsentTokens
    /\ Len(converted) >= 1

\* C4 as stated: the dimension tuple _do_it returns has as many tokens as the
\* schema declares dimensions for the variable, and the value sequence is
\* every token after those.
C4_DimensionCountIsDeclared ==
    pc = "parsed" =>
        /\ Len(parsed.dimensions) = Len(results_config[parsed.variable].indices)
        /\ parsed.values = slice_from(data, 1 + Len(parsed.dimensions))

\* C4 amended: the dimension tuple has one token fewer than the schema
\* declares dimensions (the last declared dimension, the year, is the
\* position in the value sequence) whenever the record holds at least as many
\* tokens as declared dimensions; variable, dimension tuple and value
\* sequence together are the record, in order.
C4_DimensionCountIsDeclaredLessYear ==
    pc = "parsed" =>
        /\ Len(data) >= number =>
               Len(parsed.dimensions) = Len(results_config[parsed.variable].indices) - 1
        /\ <<parsed.variable>> \o parsed.dimensions \o parsed.values = data

\* a parsed record with all its dimension tokens and at least one value
C4_Witness ==
    /\ pc = "parsed"
    /\ Len(data) >= number
    /\ Len(parsed.dimensions) >= 1
    /\ Len(parsed.values) >= 1


\* ------------------------------------------------ Spec: convert_cplex_file

\* A line of the solver file is its tab-separated fields and whether a line
\* terminator ends it (only the last line of a file may lack one).
FileTokens == {"", "0", "1.5"}

\* lines of a declared variable carry up to MaxValues values; what follows an
\* undeclared variable is never looked at, so its lines carry none
FileLines ==
    {[fields |-> <<"TotalDiscountedCost", "SIMPLICITY">> \o values, eol |-> e] :
        values \in SeqUpTo(FileTokens, MaxValues), e \in BOOLEAN}
    \cup {[fields |-> <<"Bogus", "SIMPLICITY">>, eol |-> e] : e \in BOOLEAN}

FileEndYears == {2016}

\* line.split("\t"): the terminator stays on the last field
split_tab(line) ==
    IF line.eol
    THEN [k \in 1..Len(line.fields) |->
             IF k = Len(line.fields) THEN line.fields[k] \o "\n" ELSE line.fields[k]]
    ELSE line.fields

\* linenum of enumerate(cplex_file) for the line read last
linenum == Len(cplex_file) - 1

ValueError(args) == [type |-> "ValueError", args |-> args]

\* a faulty variant of handler: every exception is reported with the line number
handler_any(exception, n, line) == ValueError(<<n, line>>)

\* except ValueError: raise ValueError("Error caused at line {}: {}".format(linenum, line));
\* any other exception leaves the loop as it is
handler(exception, n, line) ==
    IF exception.type = "ValueError" THEN ValueError(<<n, line>>) ELSE exception

\* (variable, dimension tuple, year) of an output row
RowKey(row) == <<row.variable, row.dimensions, row.year>>

RECURSIVE writelines_unique(_, _)
\* a faulty variant of writelines: a row whose key the file already holds is dropped
writelines_unique(file, rows) ==
    IF rows = <<>> THEN file
    ELSE writelines_unique(
             IF \E k \in 1..Len(file) : RowKey(file[k]) = RowKey(rows[1])
             THEN file ELSE Append(file, rows[1]),
             Tail(rows))

\* cbc_file.writelines(rows)
writelines(file, rows) == file \o rows

Init ==
    /\ pc = "reading"
    /\ raised = NoException
    /\ data = <<>> /\ number = 0 /\ parsed = <<>> /\ converted = <<>>
    /\ start_year \in StartYears
    /\ end_year \in FileEndYears
    /\ output_format \in Formats
    /\ cplex_file = <<>>
    /\ cbc_file = <<>>
    /\ IdleRename /\ IdleDataframe /\ IdleWrite

\* the file iterator yields another line
HasNextLine ==
    /\ pc = "reading"
    /\ Len(cplex_file) < MaxLines
    /\ (cplex_file # <<>> => cplex_file[Len(cplex_file)].eol)

\* one turn of the loop for a line whose variable the schema declares
ConvertKnownLine ==
    \E line \in FileLines :
        /\ HasNextLine
        /\ split_tab(line)[1] \in DOMAIN results_config
        /\ cplex_file' = Append(cplex_file, line)
        /\ data' = split_tab(line)
        /\ number' = declared_number(data')
        /\ converted' = convert(data', number', start_year, end_year, output_format)
        /\ cbc_file' = writelines(cbc_file, converted')
        /\ UNCHANGED <<pc, raised, start_year, end_year, output_format, parsed,
                       renameVars, dfVars, writeVars>>

\* one turn of the loop for a line whose variable the schema does not
\* declare: ConvertLine.__init__ raises KeyError at results_config[data[0]]
ConvertUnknownLine ==
    \E line \in FileLines :
        /\ HasNextLine
        /\ split_tab(line)[1] \notin DOMAIN results_config
        /\ cplex_file' = Append(cplex_file, line)
        /\ data' = split_tab(line)
        /\ raised' = handler(KeyError(data'[1]), Len(cplex_file), line)
        /\ pc' = "raised"
        /\ UNCHANGED <<start_year, end_year, output_format, number, parsed,
                       converted, cbc_file, renameVars, dfVars, writeVars>>

\* the iterator is exhausted: both files are closed and the function returns
EndOfFile ==
    /\ pc = "reading"
    /\ pc' = "returned"
    /\ UNCHANGED <<raised, lineVars, fileVars, renameVars, dfVars, writeVars>>

Next == ConvertKnownLine \/ ConvertUnknownLine \/ EndOfFile

Spec == Init /\ [][Next]_vars

\* C2: a line whose first token is a variable unknown to the schema aborts
\* the run with an error that reports the line number of that line; the line
\* is not skipped and no later line is read.
C2_UnknownVariableReportsLine ==
    /\ pc = "raised" =>
           /\ raised.type = "ValueError"
           /\ raised.args[1] = linenum
    /\ \A n \in 1..Len(cplex_file) :
           split_tab(cplex_file[n])[1] \notin DOMAIN results_config =>
               (pc = "raised" /\ n = Len(cplex_file))

\* C3 as stated: no two rows of the output share (variable, dimension tuple,
\* year).
C3_NoTwoRowsShareKey ==
    \A a, b \in 1..Len(cbc_file) :
        a # b => RowKey(cbc_file[a]) # RowKey(cbc_file[b])

\* the keys the claim's positions of a record yield
RecordKeys(record) ==
    LET t == do_it(record, declared_number(record))
    IN {<<t.variable, t.dimensions, start_year + (i - 1)>> :
           i \in {p \in 1..Len(t.values) :
                     t.values[p] \notin AbsentTokens /\ start_year + (p - 1) <= end_year}}

\* all keys of the lines read and of the rows written
AllKeys ==
    UNION {RecordKeys(split_tab(cplex_file[n])) :
              n \in {m \in 1..Len(cplex_file) :
                        split_tab(cplex_file[m])[1] \in DOMAIN results_config}}
    \cup {RowKey(cbc_file[k]) : k \in 1..Len(cbc_file)}

\* C3 amended: the output holds one row per input line and (variable,
\* dimension tuple, year) that the line yields: lines that yield the same key
\* each add their row, nothing is merged, and the only failure of a run is a
\* line with an unknown variable.
C3_EveryLineAddsItsRows ==
    /\ \A key \in AllKeys :
           Cardinality({k \in 1..Len(cbc_file) : RowKey(cbc_file[k]) = key})
           = Cardinality({n \in 1..Len(cplex_file) :
                  /\ split_tab(cplex_file[n])[1] \in DOMAIN results_config
                  /\ key \in RecordKeys(split_tab(cplex_file[n]))})
    /\ pc = "raised" => data[1] \notin DOMAIN results_config

\* a run that returned with two rows of the same key in its output
C3_Witness ==
    /\ pc = "returned"
    /\ \E a, b \in 1..Len(cbc_file) :
           a # b /\ RowKey(cbc_file[a]) = RowKey(cbc_file[b])

\* the lines read whose variable is declared and whose last field is a value
\* (it lies beyond the dimension tokens) that is zero or empty
LinesEndingInAbsentValue ==
    {n \in 1..Len(cplex_file) :
        LET fields == cplex_file[n].fields
        IN /\ fields[1] \in DOMAIN results_config
           /\ Len(fields) > declared_number(fields)
           /\ fields[Len(fields)] \in AbsentTokens}

\* C11: in convert_cplex_file a zero ("0", "0.0") or empty value in the last
\* position of a line is elided like one in any other position: the output
\* holds no row with a zero value for that line's variable, dimension tuple
\* and the year of that position.
C11_LastZeroValueIsElided ==
    \A n \in LinesEndingInAbsentValue :
        LET fields == cplex_file[n].fields
            count == declared_number(fields)
            key == <<fields[1], slice(fields, 1, count),
                     start_year + (Len(fields) - count - 1)>>
        IN ~ \E k \in 1..Len(cbc_file) :
                 RowKey(cbc_file[k]) = key /\ cbc_file[k].value \in {"0", "0.0"}


\* ------------------------------------- SpecRename: rename_duplicate_column

\* check_duplicate_index: len(set(index)) != len(index)
check_duplicate_index(list) ==
    Cardinality({list[k] : k \in 1..Len(list)}) # Len(list)

RECURSIVE first_occurrence_scan(_, _)
\* the scan of the faulty variant of identify_duplicate
first_occurrence_scan(list, counter) ==
    IF counter >= Len(list) THEN 0
    ELSE IF \E later \in (counter + 2)..Len(list) : list[later] = list[counter + 1]
         THEN counter
         ELSE first_occurrence_scan(list, counter + 1)

\* a faulty variant of identify_duplicate: the position of the first occurrence of
\* the first repeated name
identify_duplicate_first(list) == first_occurrence_scan(list, 0)

RECURSIVE identify_duplicate_scan(_, _, _)
\* the for loop of identify_duplicate from position counter (0-based) on, with
\* the set of elements seen so far
identify_duplicate_scan(list, counter, elements) ==
    IF counter >= Len(list) THEN 0
    ELSE IF list[counter + 1] \in elements THEN counter
         ELSE identify_duplicate_scan(list, counter + 1,
                                      elements \cup {list[counter + 1]})

\* identify_duplicate: the 0-based position of the first repeat, or False
\* (Python's False is the integer 0, and position 0 is never a repeat)
identify_duplicate(list) == identify_duplicate_scan(list, 0, {})

\* rename_duplicate_column: the caller's list after the call (the function
\* works on index.copy()) and the list returned
rename_duplicate_column(list) ==
    LET location == identify_duplicate(list)
    IN [index |-> list,
        column |-> IF location # 0
                   THEN [list EXCEPT ![location + 1] = "_" \o list[location + 1]]
                   ELSE list]

ColumnNames == {"REGION", "TIMESLICE", "_REGION"}

InitRename ==
    /\ pc = "called"
    /\ raised = NoException
    /\ index \in SeqUpTo(ColumnNames, MaxColumns)
    /\ column = <<>>
    /\ IdleLine /\ IdleFile /\ IdleDataframe /\ IdleWrite

\* rename_duplicate_column(index) returns
Rename ==
    /\ pc = "called"
    /\ index' = rename_duplicate_column(index).index
    /\ column' = rename_duplicate_column(index).column
    /\ pc' = "renamed"
    /\ UNCHANGED <<raised, lineVars, fileVars, dfVars, writeVars>>

NextRename == Rename

SpecRename == InitRename /\ [][NextRename]_vars

\* the positions (1-based) of a list that repeat an earlier element
Repeats(list) ==
    {k \in 1..Len(list) : \E j \in 1..(k - 1) : list[j] = list[k]}

\* the least element of a non-empty set of integers
Least(S) == CHOOSE k \in S : \A other \in S : k <= other

\* C5: rename_duplicate_column returns a list of the same length that differs
\* from its input in at most one position: with a repeated name in the list,
\* the first repeat of a left-to-right scan (the second occurrence of its
\* name) gets the name prefixed with one underscore and every other position
\* is unchanged; without one the list is returned as it is; the input list is
\* not modified.
C5_RenamesFirstRepeatOnly ==
    [][(pc = "called" /\ pc' = "renamed") =>
          /\ index' = index
          /\ Len(column') = Len(index)
          /\ Cardinality({k \in 1..Len(index) : column'[k] # index[k]}) <= 1
          /\ IF Repeats(index) = {}
             THEN column' = index
             ELSE LET p == Least(Repeats(index))
                  IN /\ column'[p] = "_" \o index[p]
                     /\ \A k \in 1..Len(index) : k # p => column'[k] = index[k]
                     /\ Cardinality({j \in 1..(p - 1) : index[j] = index[p]}) = 1
      ]_vars

\* a list with a repeat beyond its second position has been renamed there
C5_Witness ==
    /\ pc = "renamed"
    /\ \E p \in 3..Len(index) :
          /\ column[p] = "_" \o index[p]
          /\ \A k \in 1..Len(index) : k # p => column[k] = index[k]

\* --------------------------------- SpecDataframe: convert_dataframe_to_csv

\* a pandas DataFrame, as far as the function looks at it: where it comes
\* from, its index and column names and whether it has rows
Frame(origin, names, columns, empty) ==
    [origin |-> origin, index |-> names, columns |-> columns, empty |-> empty]

\* pd.DataFrame()
EmptyFrame == Frame("new", <<>>, <<>>, TRUE)

\* the first loop's table of a variable with solver rows: the declared
\* dimensions become the row index, renamed where a name repeats
solver_frame(name) ==
    LET indices == results_config[name].indices
        columns == Append(indices, "VALUE")
    IN IF check_duplicate_index(indices)
       THEN Frame("solver", rename_duplicate_column(indices).column,
                  rename_duplicate_column(columns).column, FALSE)
       ELSE Frame("solver", indices, columns, FALSE)

\* what a variable's derivation does when asked: "none" no rule is registered,
\* "table" the rule returns rows, "empty" it returns no rows, "KeyError" it
\* raises KeyError (a table it needs is missing), "Exception" it raises an
\* error of another kind
RuleKinds == {"none", "table", "empty", "KeyError", "Exception"}

\* ResultsPackage.__getitem__(name) for a variable without solver rows
results_package_getitem(name, registry) ==
    CASE registry[name] = "none" -> [raised |-> KeyError(name), df |-> EmptyFrame]
      [] registry[name] = "KeyError" -> [raised |-> KeyError("input"), df |-> EmptyFrame]
      [] registry[name] = "Exception" ->
             [raised |-> [type |-> "Exception", args |-> <<name>>], df |-> EmptyFrame]
      [] registry[name] = "table" ->
             [raised |-> NoException,
              df |-> Frame("derived", results_config[name].indices, <<"VALUE">>, FALSE)]
      [] OTHER ->
             [raised |-> NoException,
              df |-> Frame("derived", results_config[name].indices, <<"VALUE">>, TRUE)]

LogEntry(level, message, name) == [level |-> level, message |-> message, name |-> name]

\* a faulty variant of try_getitem: the except clause is missing
try_getitem_uncaught(name, registry) ==
    LET got == results_package_getitem(name, registry)
    IN [raised |-> got.raised, df |-> got.df, log |-> <<>>]

\* try: df = results_package[name]
\* except KeyError as ex: LOGGER.info(...); LOGGER.debug(...); df = pd.DataFrame()
try_getitem(name, registry) ==
    LET got == results_package_getitem(name, registry)
    IN IF got.raised.type = "KeyError"
       THEN [raised |-> NoException, df |-> EmptyFrame,
             log |-> <<LogEntry("info", "No calculation method available", name),
                       LogEntry("debug", "Error calculating", name)>>]
       ELSE [raised |-> got.raised, df |-> got.df, log |-> <<>>]

\* a faulty variant of warn_empty: nothing is logged
warn_empty_silent(entries, name) == entries

\* LOGGER.warning("Calculation returned empty dataframe for parameter '%s'", name)
warn_empty(entries, name) ==
    Append(entries, LogEntry("warning", "Calculation returned empty dataframe", name))

\* results[name] = df
store(mapping, name, df) ==
    [v \in DOMAIN mapping \cup {name} |-> IF v = name THEN df ELSE mapping[v]]

DeclaredVariables == {config_order[k] : k \in 1..Len(config_order)}

InitDataframe ==
    /\ pc = "extract"
    /\ raised = NoException
    /\ solver_data \in SUBSET DeclaredVariables
    /\ rules \in [DeclaredVariables -> RuleKinds]
    /\ results = <<>>
    /\ not_found = <<>>
    /\ cursor = 0
    /\ attempts = [v \in DeclaredVariables |-> 0]
    /\ log = <<>>
    /\ IdleLine /\ IdleFile /\ IdleRename /\ IdleWrite

\* where the first loop goes after a turn: on, or to the second loop
AfterExtract ==
    /\ cursor' = IF cursor + 1 = Len(config_order) THEN 0 ELSE cursor + 1
    /\ pc' = IF cursor + 1 = Len(config_order) THEN "derive" ELSE "extract"

\* a turn of the first loop for a variable that has rows in the solver data
ExtractFound ==
    /\ pc = "extract"
    /\ config_order[cursor + 1] \in solver_data
    /\ results' = store(results, config_order[cursor + 1],
                        solver_frame(config_order[cursor + 1]))
    /\ AfterExtract
    /\ UNCHANGED <<raised, solver_data, rules, not_found, attempts, log,
                   lineVars, fileVars, renameVars, writeVars>>

\* a turn of the first loop for a variable without rows: not_found.append(name)
ExtractNotFound ==
    /\ pc = "extract"
    /\ config_order[cursor + 1] \notin solver_data
    /\ not_found' = Append(not_found, config_order[cursor + 1])
    /\ AfterExtract
    /\ UNCHANGED <<raised, solver_data, rules, results, attempts, log,
                   lineVars, fileVars, renameVars, writeVars>>

\* a turn of the second loop: look the variable up in the results package,
\* keep a table with rows, warn about an empty one
Derive ==
    /\ pc = "derive"
    /\ cursor < Len(not_found)
    /\ LET name == not_found[cursor + 1]
           got == try_getitem(name, rules)
       IN /\ attempts' = [attempts EXCEPT ![name] = @ + 1]
          /\ IF got.raised # NoException
             THEN /\ raised' = got.raised
                  /\ pc' = "raised"
                  /\ log' = log \o got.log
                  /\ UNCHANGED <<results, cursor>>
             ELSE /\ cursor' = cursor + 1
                  /\ IF ~got.df.empty
                     THEN /\ results' = store(results, name, got.df)
                          /\ log' = log \o got.log
                     ELSE /\ log' = warn_empty(log \o got.log, name)
                          /\ UNCHANGED results
                  /\ UNCHANGED <<pc, raised>>
    /\ UNCHANGED <<solver_data, rules, not_found,
                   lineVars, fileVars, renameVars, writeVars>>

\* return results
Return ==
    /\ pc = "derive"
    /\ cursor = Len(not_found)
    /\ pc' = "returned"
    /\ UNCHANGED <<raised, dfVars, lineVars, fileVars, renameVars, writeVars>>

NextDataframe == ExtractFound \/ ExtractNotFound \/ Derive \/ Return

SpecDataframe == InitDataframe /\ [][NextDataframe]_vars

\* the variables of not_found the second loop has finished with
Derived ==
    IF pc \in {"derive", "returned", "raised"}
    THEN {not_found[k] : k \in 1..cursor}
    ELSE {}

Warned(name) ==
    \E k \in 1..Len(log) : log[k].level = "warning" /\ log[k].name = name

\* C6 as stated: a derivation rule that raises an error of any kind is
\* caught: no exception reaches the caller, and the tables of the variables
\* with solver rows are returned.
C6_AnyRuleErrorIsCaught ==
    /\ pc # "raised"
    /\ raised = NoException

\* C6 amended: a derivation rule that raises KeyError is caught: no exception
\* of that lookup reaches the caller, the variable is left out of the mapping
\* with a warning (an empty table) and the loop goes on; the only exception
\* that reaches the caller is a rule's error of another kind; a run that
\* returns holds the table of every variable that had solver rows.
C6_KeyErrorOfRuleIsCaught ==
    /\ \A name \in Derived :
           rules[name] = "KeyError" => (name \notin DOMAIN results /\ Warned(name))
    /\ pc = "raised" =>
           /\ raised.type # "KeyError"
           /\ rules[not_found[cursor + 1]] = "Exception"
    /\ pc = "returned" =>
           \A name \in solver_data :
               name \in DOMAIN results /\ results[name].origin = "solver"

\* a run returned although the rule of an absent variable raised KeyError,
\* with the table of another variable in the mapping
C6_Witness ==
    /\ pc = "returned"
    /\ \E name \in Derived : rules[name] = "KeyError"
    /\ solver_data # {}

\* C7: a declared variable without solver rows and without a derivation rule
\* resolves to an empty table (it is left out of the mapping) with a logged
\* warning, its lookup never raises; the returned mapping holds the table of
\* every variable that had solver rows; no variable's derivation is attempted
\* more than once per run.
C7_NoRuleMeansEmptyAndWarned ==
    /\ \A name \in Derived :
           rules[name] = "none" => (name \notin DOMAIN results /\ Warned(name))
    /\ pc = "raised" => rules[not_found[cursor + 1]] # "none"
    /\ pc = "returned" =>
           \A name \in solver_data :
               name \in DOMAIN results /\ results[name] = solver_frame(name)
    /\ \A name \in DeclaredVariables : attempts[name] <= 1

\* a run returned with a variable that has neither rows nor a rule, and with
\* the table of a variable that has rows
C7_Witness ==
    /\ pc = "returned"
    /\ \E name \in Derived : rules[name] = "none" /\ attempts[name] = 1
    /\ \E name \in solver_data : name \in DOMAIN results

\* ------------------------------------------ SpecWrite: the write strategies

\* self.user_config: what the strategy was constructed with
user_config ==
    [n \in {"REGION", "CapitalCost"} |->
        IF n = "REGION" THEN [type |-> "set", default |-> 0]
        ELSE [type |-> "param", default |-> 0]]

\* the order of user_config.items()
user_config_order == <<"REGION", "CapitalCost">>

\* self.default_values of WriteCsv
default_values == [n \in {"CapitalCost"} |-> 0]

Variants == {"datafile", "csv", "datapackage"}

SetNames == {"REGION"}

ParameterNames == {"CapitalCost"}

\* a parameter table: rows of (YEAR, VALUE), YEAR being the index, in index order
ParameterValues == {0, 1}

ParameterTables ==
    {[k \in 1..Len(values) |-> [YEAR |-> 2014 + k, VALUE |-> values[k]]] :
        values \in SeqUpTo(ParameterValues, MaxRows)}

Defaults == {0, 1}

\* a set table: one column of elements
SetTables == {<<>>, <<[VALUE |-> "SIMPLICITY"]>>}

\* "%g" % value (and str()) for the whole numbers below a million of the model
format_g(value) == ToString(value)

\* str.lower() of the names the model writes
lower(name) ==
    CASE name = "REGION" -> "region"
      [] name = "CapitalCost" -> "capitalcost"
      [] name = "default_values" -> "default_values"
      [] OTHER -> name

\* a faulty variant of form_parameter: nothing is dropped
form_parameter_keep_all(df, default) == df

\* WriteDatafile._form_parameter: df[df.VALUE != default]
form_parameter(df, default) == SelectSeq(df, LAMBDA row : row.VALUE # default)

\* df.to_csv(sep=" ", header=False, index=True, float_format="%g"), one row
datafile_parameter_row(row) == ToString(row.YEAR) \o " " \o format_g(row.VALUE) \o "\n"

\* df.to_csv(sep=" ", header=False, index=False), one row
datafile_set_row(row) == row.VALUE \o "\n"

\* "param default {} : {} :=\n".format(default, parameter_name)
datafile_parameter_header(name, default) ==
    "param default " \o ToString(default) \o " : " \o name \o " :=\n"

\* WriteDatafile._write_parameter: the lines it writes
datafile_write_parameter(df, name, default) ==
    LET kept == form_parameter(df, default)
    IN Append(<<>>, datafile_parameter_header(name, default))
       \o [k \in 1..Len(kept) |-> datafile_parameter_row(kept[k])]
       \o <<";\n">>

\* WriteDatafile._write_set: the lines it writes
datafile_write_set(df, name) ==
    <<"set " \o name \o " :=\n">>
    \o [k \in 1..Len(df) |-> datafile_set_row(df[k])]
    \o <<";\n">>

\* df.to_csv(csvfile, index=index): a header line and one line per row
to_csv(df, with_index) ==
    IF with_index
    THEN <<"YEAR,VALUE\n">>
         \o [k \in 1..Len(df) |->
                ToString(df[k].YEAR) \o "," \o ToString(df[k].VALUE) \o "\n"]
    ELSE <<"VALUE\n">> \o [k \in 1..Len(df) |-> df[k].VALUE \o "\n"]

\* a faulty variant of write_out_dataframe: the file is opened for appending
write_out_dataframe_append(sink, path, content) ==
    [p \in DOMAIN sink \cup {path} |->
        IF p = path
        THEN (IF path \in DOMAIN sink THEN sink[path] ELSE <<>>) \o content
        ELSE sink[p]]

\* _write_out_dataframe: open(filepath, "w") and write the content
write_out_dataframe(sink, path, content) ==
    [p \in DOMAIN sink \cup {path} |-> IF p = path THEN content ELSE sink[p]]

\* os.path.join(folder, parameter + ".csv")
csv_path(name) == name \o ".csv"

\* os.path.join(folder, "data", parameter + ".csv")
datapackage_path(name) == "data/" \o name \o ".csv"

\* WriteDatapackage._add_resource: the resource it returns
add_resource(name) == [name |-> lower(name), title |-> name]

\* handle.add_resource(resource): frictionless keeps the package's resources
\* as a list and appends to it
package_add_resource(package, resource) == Append(package, resource)

\* create_datapackage.generate_package(handle, user_config): the package with
\* the resources that were added to the handle
generate_package(package) == package

\* the rows of default_values.csv that WriteDatapackage._write_default_values writes
datapackage_default_rows ==
    LET params == SelectSeq(user_config_order, LAMBDA n : user_config[n].type = "param")
    IN <<"name,default_value\n">>
       \o [k \in 1..Len(params) |->
              params[k] \o "," \o ToString(user_config[params[k]].default) \o "\n"]

\* the content of the default_values.csv that WriteCsv._footer writes
csv_default_rows ==
    <<"name,default_value\n">>
    \o <<"CapitalCost," \o ToString(default_values["CapitalCost"]) \o "\n">>

NoManifest == [written |-> FALSE, resources |-> <<>>]

\* a strategy has been constructed
InitWrite ==
    /\ pc = "new"
    /\ raised = NoException
    /\ variant \in Variants
    /\ handle = <<>>
    /\ files = <<>>
    /\ manifest = NoManifest
    /\ calls = <<>>
    /\ IdleLine /\ IdleFile /\ IdleRename /\ IdleDataframe

\* _header(): the sink is opened and the handle returned
Header ==
    /\ pc = "new"
    /\ pc' = "open"
    /\ handle' = IF variant = "datafile"
                 THEN <<"# Model file written by *otoole*\n">>
                 ELSE <<>>
    /\ UNCHANGED <<raised, variant, files, manifest, calls,
                   lineVars, fileVars, renameVars, dfVars>>

\* _write_set(df, set_name, handle)
WriteSet ==
    \E name \in SetNames, df \in SetTables :
        /\ pc = "open"
        /\ Len(calls) < MaxWrites
        /\ calls' = Append(calls, [op |-> "set", name |-> name, df |-> df, default |-> 0])
        /\ CASE variant = "datafile" ->
                    /\ handle' = handle \o datafile_write_set(df, name)
                    /\ UNCHANGED files
             [] variant = "csv" ->
                    /\ files' = write_out_dataframe(files, csv_path(name), to_csv(df, FALSE))
                    /\ UNCHANGED handle
             [] variant = "datapackage" ->
                    /\ files' = write_out_dataframe(files, datapackage_path(name),
                                                    to_csv(df, FALSE))
                    /\ handle' = package_add_resource(handle, add_resource(name))
        /\ UNCHANGED <<pc, raised, variant, manifest,
                       lineVars, fileVars, renameVars, dfVars>>

\* _write_parameter(df, parameter_name, handle, default)
WriteParameter ==
    \E name \in ParameterNames, df \in ParameterTables, default \in Defaults :
        /\ pc = "open"
        /\ Len(calls) < MaxWrites
        /\ calls' = Append(calls, [op |-> "parameter", name |-> name, df |-> df,
                                   default |-> default])
        /\ CASE variant = "datafile" ->
                    /\ handle' = handle \o datafile_write_parameter(df, name, default)
                    /\ UNCHANGED files
             [] variant = "csv" ->
                    /\ files' = write_out_dataframe(files, csv_path(name), to_csv(df, TRUE))
                    /\ UNCHANGED handle
             [] variant = "datapackage" ->
                    /\ files' = write_out_dataframe(files, datapackage_path(name),
                                                    to_csv(df, TRUE))
                    /\ handle' = package_add_resource(handle, add_resource(name))
        /\ UNCHANGED <<pc, raised, variant, manifest,
                       lineVars, fileVars, renameVars, dfVars>>

\* _footer(handle)
Footer ==
    /\ pc = "open"
    /\ pc' = "closed"
    /\ CASE variant = "datafile" ->
                /\ handle' = Append(handle, "end;\n")
                /\ UNCHANGED <<files, manifest>>
         [] variant = "csv" ->
                /\ files' = IF DOMAIN default_values # {}
                            THEN write_out_dataframe(files, csv_path("default_values"),
                                                     csv_default_rows)
                            ELSE files
                /\ UNCHANGED <<handle, manifest>>
         [] variant = "datapackage" ->
                \* _write_default_values writes the file; the resource it
                \* builds with _add_resource is not added to the handle
                /\ files' = write_out_dataframe(files, datapackage_path("default_values"),
                                                datapackage_default_rows)
                /\ manifest' = [written |-> TRUE, resources |-> generate_package(handle)]
                /\ UNCHANGED handle
    /\ UNCHANGED <<raised, variant, calls, lineVars, fileVars, renameVars, dfVars>>

NextWrite == Header \/ WriteSet \/ WriteParameter \/ Footer

SpecWrite == InitWrite /\ [][NextWrite]_vars

\* C8: for WriteDatapackage, after open, any write_set and write_parameter
\* calls, and close, the finalized manifest holds one entry for every set and
\* parameter table written (name the lower-cased table name, title the table
\* name) and one entry for the default-values table.
C8_ManifestHoldsTablesAndDefaults ==
    (variant = "datapackage" /\ pc = "closed") =>
        /\ manifest.written
        /\ \A c \in 1..Len(calls) :
               \E k \in 1..Len(manifest.resources) :
                   /\ manifest.resources[k].name = lower(calls[c].name)
                   /\ manifest.resources[k].title = calls[c].name
        /\ \E k \in 1..Len(manifest.resources) :
               manifest.resources[k].name = "default_values"

\* a write step that repeats the call before it
RepeatedWrite ==
    /\ pc = "open" /\ pc' = "open"
    /\ calls # <<>>
    /\ Len(calls') = Len(calls) + 1
    /\ calls'[Len(calls')] = calls[Len(calls)]

WrittenCall == calls'[Len(calls')]

WrittenBlock == SubSeq(handle', Len(handle) + 1, Len(handle'))

\* the positions of the rows of a table whose VALUE differs from the default
DifferingRows(df, default) == {i \in 1..Len(df) : df[i].VALUE # default}

\* the k-th smallest element of a set of positions
KthOf(S, k) == CHOOSE i \in S : Cardinality({j \in S : j <= i}) = k

\* C10: WriteDatafile.write_parameter adds to the file the header line, which
\* names the default and the parameter, then exactly the rows of the table
\* whose VALUE differs from the default, in their original order, then ";";
\* no row whose VALUE equals the default is written.
C10_DatafileWritesRowsOffDefault ==
    [][(variant = "datafile" /\ pc = "open" /\ Len(calls') = Len(calls) + 1
        /\ WrittenCall.op = "parameter") =>
          LET df == WrittenCall.df
              default == WrittenCall.default
              kept == DifferingRows(df, default)
              block == WrittenBlock
          IN /\ SubSeq(handle', 1, Len(handle)) = handle
             /\ Len(block) = Cardinality(kept) + 2
             /\ block[1] = "param default " \o ToString(default) \o " : "
                           \o WrittenCall.name \o " :=\n"
             /\ block[Len(block)] = ";\n"
             /\ \A k \in 1..Cardinality(kept) :
                    block[k + 1] = ToString(df[KthOf(kept, k)].YEAR) \o " "
                                   \o ToString(df[KthOf(kept, k)].VALUE) \o "\n"
      ]_vars

\* WriteDatafile has written a parameter whose first row holds the default
\* and whose second row does not
C10_Witness ==
    /\ variant = "datafile"
    /\ calls # <<>>
    /\ LET call == calls[Len(calls)]
       IN /\ call.op = "parameter"
          /\ Len(call.df) >= 2
          /\ call.df[1].VALUE = call.default
          /\ call.df[2].VALUE # call.default
          /\ handle[Len(handle)] = ";\n"
          /\ handle[Len(handle) - 1] = "2016 " \o ToString(call.df[2].VALUE) \o "\n"

=============================================================================
